---- MODULE Spec2Model ----
(***************************************************************************)
(* A model of RRDPM.py: the cell-value type inference, the record field    *)
(* resolver, the entity builder, the template renderer and the grouping    *)
(* loop of main with its name-collection pass.                             *)
(*                                                                         *)
(* Python strings are sequences of one-character strings, so that strip,   *)
(* lower, split and the regular expressions act on characters.  Python     *)
(* values are tagged records; each tag has its own payload field, so that  *)
(* values of different types are simply unequal.                           *)
(***************************************************************************)
EXTENDS Integers, Sequences, FiniteSets, TLC

VARIABLES
    pc,             \* position of the running call
    val,            \* _parse_cell_value: the argument
    parsed,         \* _parse_cell_value: the returned value
    tree,           \* _render_node: the argument node, a template tree
    ctx,            \* _render_node: the argument row, the context record
    team,           \* _render_node: the argument pokemon_list, the entity list or None
    rendered,       \* _render_node: the returned tree
    series,         \* _pokemon_from_row: the argument row, one record of the sheet
    field,          \* cell: the argument name, the field asked for
    got,            \* cell: what the lookups of field, field.upper() and " field " returned
    pokemon,        \* _pokemon_from_row: the returned entity, or the exception raised
    workbook,       \* the sheets read from the Excel file, each a sequence of records
    templates,      \* the template objects main loads; None for a file that is absent
    leader_names,   \* __main__: the known roster names
    elite_4_names,  \* __main__: the known elite roster names
    sheet_i,        \* the sheet the current loop is at
    group_i,        \* the group of that sheet the current loop is at
    written         \* the JSON files written so far, in the order of writing

inferVars == <<val, parsed>>
renderVars == <<tree, ctx, team, rendered>>
entityVars == <<series, field, got, pokemon>>
mainVars == <<workbook, templates, leader_names, elite_4_names, sheet_i, group_i, written>>
vars == <<pc, inferVars, renderVars, entityVars, mainVars>>

-----------------------------------------------------------------------------
(* Bounds of the model.                                                    *)

\* longest enumerated cell text given to _parse_cell_value
MaxCellLen == 3
\* most pieces a template leaf string is put together from
MaxPieces == 2
\* most columns of a record given to cell
MaxCols == 2
\* longest enumerated text of a cell given to _pokemon_from_row
MaxNameLen == 2
\* most records of a sheet
MaxRows == 2
\* sheets of the workbook when every sheet is processed (DEFAULT_SHEETS lists 30)
NumSheets == 2

-----------------------------------------------------------------------------
(* Python values.                                                          *)

NoneV == [t |-> "none"]
NaNV == [t |-> "nan"]
StrV(s) == [t |-> "str", s |-> s]
IntV(n) == [t |-> "int", n |-> n]
BoolV(b) == [t |-> "bool", b |-> b]
\* a finite float num/den, den a power of ten, num not divisible by ten unless den = 1
FloatV(num, den) == [t |-> "float", num |-> num, den |-> den]
InfV(neg) == [t |-> "inf", neg |-> neg]
ListV(xs) == [t |-> "list", xs |-> xs]
\* a dict: the sequence of its items [k, v] in insertion order, keys unique
DictV(kv) == [t |-> "dict", kv |-> kv]
\* the call did not return: it raised exc
Raised(exc) == [t |-> "raise", exc |-> exc]
\* no value yet
Unset == [t |-> "unset"]

\* the variables of a part of the program that is not running
InferIdle == val = Unset /\ parsed = Unset
RenderIdle == tree = Unset /\ ctx = Unset /\ team = Unset /\ rendered = Unset
EntityIdle == series = Unset /\ field = Unset /\ got = Unset /\ pokemon = Unset
MainIdle ==
    /\ workbook = Unset /\ templates = Unset /\ leader_names = Unset /\ elite_4_names = Unset
    /\ sheet_i = 0 /\ group_i = 0 /\ written = Unset

IsStr(v) == v.t = "str"

-----------------------------------------------------------------------------
(* Python str operations.                                                  *)

WhiteSpace == {" "}
DigitChars == <<"0", "1", "2", "3", "4", "5", "6", "7", "8", "9">>
UpperChars == <<"A", "B", "C", "D", "E", "F", "G", "H", "I", "J", "K", "L", "M",
                "N", "O", "P", "Q", "R", "S", "T", "U", "V", "W", "X", "Y", "Z">>
LowerChars == <<"a", "b", "c", "d", "e", "f", "g", "h", "i", "j", "k", "l", "m",
                "n", "o", "p", "q", "r", "s", "t", "u", "v", "w", "x", "y", "z">>

Range(f) == {f[i] : i \in DOMAIN f}
IndexOf(c, seq) == CHOOSE i \in DOMAIN seq : seq[i] = c

IsSpace(c) == c \in WhiteSpace
IsDigit(c) == c \in Range(DigitChars)
DigitVal(c) == IndexOf(c, DigitChars) - 1

\* str.lower / str.upper on one character; the one non-ASCII pair is E-acute, written "É" / "é"
LowerChar(c) ==
    IF c \in Range(UpperChars) THEN LowerChars[IndexOf(c, UpperChars)]
    ELSE IF c = "É" THEN "é" ELSE c
UpperChar(c) ==
    IF c \in Range(LowerChars) THEN UpperChars[IndexOf(c, LowerChars)]
    ELSE IF c = "é" THEN "É" ELSE c
Lower(s) == [i \in 1..Len(s) |-> LowerChar(s[i])]
Upper(s) == [i \in 1..Len(s) |-> UpperChar(s[i])]

RECURSIVE LStrip(_)
LStrip(s) == IF s # <<>> /\ IsSpace(Head(s)) THEN LStrip(Tail(s)) ELSE s
RECURSIVE RStrip(_)
RStrip(s) ==
    IF s # <<>> /\ IsSpace(s[Len(s)]) THEN RStrip(SubSeq(s, 1, Len(s) - 1)) ELSE s
Strip(s) == RStrip(LStrip(s))

StartsWith(s, p) == Len(s) >= Len(p) /\ SubSeq(s, 1, Len(p)) = p
Drop(s, n) == SubSeq(s, n + 1, Len(s))
Contains(s, c) == \E i \in 1..Len(s) : s[i] = c

Without(s, cs) == SelectSeq(s, LAMBDA c : c \notin cs)

\* s.split(d) for a one-character separator d
RECURSIVE SplitAcc(_, _, _)
SplitAcc(s, d, cur) ==
    IF s = <<>> THEN <<cur>>
    ELSE IF Head(s) = d THEN <<cur>> \o SplitAcc(Tail(s), d, <<>>)
    ELSE SplitAcc(Tail(s), d, Append(cur, Head(s)))
Split(s, d) == SplitAcc(s, d, <<>>)

\* [p.strip() for p in parts if p.strip() != ""]
RECURSIVE StripNonEmpty(_)
StripNonEmpty(parts) ==
    IF parts = <<>> THEN <<>>
    ELSE IF Strip(Head(parts)) # <<>>
         THEN <<Strip(Head(parts))>> \o StripNonEmpty(Tail(parts))
         ELSE StripNonEmpty(Tail(parts))

\* the leading run of decimal digits of s
RECURSIVE DigitRun(_)
DigitRun(s) ==
    IF s # <<>> /\ IsDigit(Head(s)) THEN <<Head(s)>> \o DigitRun(Tail(s)) ELSE <<>>
\* the number a run of decimal digits denotes
RECURSIVE DigitsValue(_)
DigitsValue(ds) ==
    IF ds = <<>> THEN 0 ELSE DigitsValue(SubSeq(ds, 1, Len(ds) - 1)) * 10 + DigitVal(ds[Len(ds)])
RECURSIVE Pow10(_)
Pow10(k) == IF k = 0 THEN 1 ELSE 10 * Pow10(k - 1)
\* num/den with the common factors of ten removed
RECURSIVE MkFloat(_, _)
MkFloat(num, den) ==
    IF den > 1 /\ num % 10 = 0 THEN MkFloat(num \div 10, den \div 10) ELSE FloatV(num, den)

\* re.fullmatch(r"-?\d+", s)
IsIntPattern(s) ==
    LET body == IF s # <<>> /\ Head(s) = "-" THEN Tail(s) ELSE s
    IN  body # <<>> /\ DigitRun(body) = body
\* re.fullmatch(r"-?\d+\.\d+", s)
IsDecimalPattern(s) ==
    LET body == IF s # <<>> /\ Head(s) = "-" THEN Tail(s) ELSE s
        ip == DigitRun(body)
        rest == Drop(body, Len(ip))
    IN  /\ ip # <<>>
        /\ rest # <<>> /\ Head(rest) = "."
        /\ Tail(rest) # <<>> /\ DigitRun(Tail(rest)) = Tail(rest)
\* int(s) for s matching the integer pattern
PyInt(s) ==
    IF Head(s) = "-" THEN IntV(0 - DigitsValue(Tail(s))) ELSE IntV(DigitsValue(s))
\* float(s) for s matching the decimal pattern
PyFloat(s) ==
    LET neg == Head(s) = "-"
        body == IF neg THEN Tail(s) ELSE s
        ip == DigitRun(body)
        fp == Drop(body, Len(ip) + 1)
        mag == DigitsValue(ip \o fp)
    IN  MkFloat(IF neg THEN 0 - mag ELSE mag, Pow10(Len(fp)))

-----------------------------------------------------------------------------
(* json.loads, on the characters of the model (no backslash, no control    *)
(* character).  A parse returns [ok, v, rest]: the value and the text      *)
(* after it.                                                               *)

JFail == [ok |-> FALSE]
JOk(v, rest) == [ok |-> TRUE, v |-> v, rest |-> rest]

\* d[k] = v on the items of a dict: a key already present keeps its place
DictSet(kv, k, v) ==
    IF \E i \in 1..Len(kv) : kv[i].k = k
    THEN [i \in 1..Len(kv) |-> IF kv[i].k = k THEN [k |-> k, v |-> v] ELSE kv[i]]
    ELSE Append(kv, [k |-> k, v |-> v])

\* the text of a string after its opening quote, up to the closing quote
RECURSIVE JsonString(_, _)
JsonString(s, acc) ==
    IF s = <<>> THEN JFail
    ELSE IF Head(s) = "\"" THEN JOk(StrV(acc), Tail(s))
    ELSE JsonString(Tail(s), Append(acc, Head(s)))

\* the number of value num * 10^shift, an int when the text had no fraction and no exponent
JsonScaled(num, shift, whole, rest) ==
    IF whole THEN JOk(IntV(num), rest)
    ELSE IF shift >= 0 THEN JOk(FloatV(num * Pow10(shift), 1), rest)
    ELSE JOk(MkFloat(num, Pow10(0 - shift)), rest)
\* the number of integer digits ip, fraction digits fp, exponent sign esign and digits ep
JsonNumberOf(neg, ip, fp, esign, ep, rest) ==
    JsonScaled(IF neg THEN 0 - DigitsValue(ip \o fp) ELSE DigitsValue(ip \o fp),
               (IF esign = <<"-">> THEN 0 - DigitsValue(ep) ELSE DigitsValue(ep)) - Len(fp),
               fp = <<>> /\ ep = <<>>, rest)
\* ([eE][-+]?\d+)? : r3 is the text after the "e", ep the digits after the sign;
\* without digits there is no exponent and the number ends at r2
JsonExponentDigits(neg, ip, fp, r2, r3, esign, ep) ==
    IF ep # <<>> THEN JsonNumberOf(neg, ip, fp, esign, ep, Drop(r3, Len(esign) + Len(ep)))
    ELSE JsonNumberOf(neg, ip, fp, esign, <<>>, r2)
JsonExponentSign(neg, ip, fp, r2, r3, esign) ==
    JsonExponentDigits(neg, ip, fp, r2, r3, esign, DigitRun(Drop(r3, Len(esign))))
JsonExponent(neg, ip, fp, r2) ==
    IF r2 # <<>> /\ Head(r2) \in {"e", "E"}
    THEN JsonExponentSign(neg, ip, fp, r2, Tail(r2),
                          IF Tail(r2) # <<>> /\ Head(Tail(r2)) \in {"-", "+"}
                          THEN <<Head(Tail(r2))>> ELSE <<>>)
    ELSE JsonNumberOf(neg, ip, fp, <<>>, <<>>, r2)
\* (\.\d+)? : r1 is the text after the integer digits, fp the digits after a "."
JsonFractionDigits(neg, ip, r1, fp) ==
    JsonExponent(neg, ip, fp, IF fp # <<>> THEN Drop(r1, Len(fp) + 1) ELSE r1)
JsonFraction(neg, ip, r1) ==
    JsonFractionDigits(neg, ip, r1,
                       IF r1 # <<>> /\ Head(r1) = "." THEN DigitRun(Tail(r1)) ELSE <<>>)
\* (-?(?:0|[1-9]\d*)) : body is the text after the sign, ip its integer digits
JsonInteger(neg, body, ip) ==
    IF ip = <<>> THEN JFail ELSE JsonFraction(neg, ip, Drop(body, Len(ip)))
JsonSigned(neg, body) ==
    JsonInteger(neg, body,
                IF body # <<>> /\ Head(body) = "0" THEN <<"0">> ELSE DigitRun(body))
\* (-?(?:0|[1-9]\d*))(\.\d+)?([eE][-+]?\d+)? at the head of s
JsonNumber(s) == JsonSigned(Head(s) = "-", IF Head(s) = "-" THEN Tail(s) ELSE s)

RECURSIVE JsonValue(_)
RECURSIVE JsonItems(_, _)
RECURSIVE JsonMembers(_, _)

\* the value at the head of s (s has no leading whitespace)
JsonValue(s) ==
    IF s = <<>> THEN JFail
    ELSE IF Head(s) = "\"" THEN JsonString(Tail(s), <<>>)
    ELSE IF Head(s) = "[" THEN
        LET r == LStrip(Tail(s))
        IN  IF r # <<>> /\ Head(r) = "]" THEN JOk(ListV(<<>>), Tail(r))
            ELSE JsonItems(r, <<>>)
    ELSE IF Head(s) = "{" THEN
        LET r == LStrip(Tail(s))
        IN  IF r # <<>> /\ Head(r) = "}" THEN JOk(DictV(<<>>), Tail(r))
            ELSE JsonMembers(r, <<>>)
    ELSE IF StartsWith(s, <<"n", "u", "l", "l">>) THEN JOk(NoneV, Drop(s, 4))
    ELSE IF StartsWith(s, <<"t", "r", "u", "e">>) THEN JOk(BoolV(TRUE), Drop(s, 4))
    ELSE IF StartsWith(s, <<"f", "a", "l", "s", "e">>) THEN JOk(BoolV(FALSE), Drop(s, 5))
    ELSE IF StartsWith(s, <<"N", "a", "N">>) THEN JOk(NaNV, Drop(s, 3))
    ELSE IF StartsWith(s, <<"I", "n", "f", "i", "n", "i", "t", "y">>)
        THEN JOk(InfV(FALSE), Drop(s, 8))
    ELSE IF StartsWith(s, <<"-", "I", "n", "f", "i", "n", "i", "t", "y">>)
        THEN JOk(InfV(TRUE), Drop(s, 9))
    ELSE IF Head(s) = "-" \/ IsDigit(Head(s)) THEN JsonNumber(s)
    ELSE JFail

\* the elements of an array from the head of s, after acc
JsonItems(s, acc) ==
    LET r == JsonValue(s)
    IN  IF ~r.ok THEN JFail
        ELSE LET rest == LStrip(r.rest)
                 acc2 == Append(acc, r.v)
             IN  IF rest = <<>> THEN JFail
                 ELSE IF Head(rest) = "]" THEN JOk(ListV(acc2), Tail(rest))
                 ELSE IF Head(rest) = "," THEN JsonItems(LStrip(Tail(rest)), acc2)
                 ELSE JFail

\* the members of an object from the head of s, after kv
JsonMembers(s, kv) ==
    IF s = <<>> \/ Head(s) # "\"" THEN JFail
    ELSE LET k == JsonString(Tail(s), <<>>)
         IN  IF ~k.ok THEN JFail
             ELSE LET r1 == LStrip(k.rest)
                  IN  IF r1 = <<>> \/ Head(r1) # ":" THEN JFail
                      ELSE LET r == JsonValue(LStrip(Tail(r1)))
                           IN  IF ~r.ok THEN JFail
                               ELSE LET rest == LStrip(r.rest)
                                        kv2 == DictSet(kv, k.v.s, r.v)
                                    IN  IF rest = <<>> THEN JFail
                                        ELSE IF Head(rest) = "}"
                                            THEN JOk(DictV(kv2), Tail(rest))
                                        ELSE IF Head(rest) = ","
                                            THEN JsonMembers(LStrip(Tail(rest)), kv2)
                                        ELSE JFail

\* json.loads(s): [ok, v]; ok is FALSE where json.loads raises
JsonLoads(s) ==
    LET r == JsonValue(LStrip(s))
    IN  IF r.ok /\ LStrip(r.rest) = <<>> THEN [ok |-> TRUE, v |-> r.v] ELSE JFail

-----------------------------------------------------------------------------
(* _parse_cell_value                                                       *)

\* s[0] in "[{" or s in ("true", "false", "null"), for s not empty
JsonShaped(s) ==
    \/ Head(s) \in {"[", "{"}
    \/ s \in {<<"t", "r", "u", "e">>, <<"f", "a", "l", "s", "e">>, <<"n", "u", "l", "l">>}

\* [p.strip() for p in s.split(";") if p.strip() != ""]
SemicolonParts(s) ==
    LET parts == StripNonEmpty(Split(s, ";"))
    IN  ListV([i \in 1..Len(parts) |-> StrV(parts[i])])

\* _parse_cell_value with the list rule tried before the JSON rule
parse_cell_value_list_first(v) ==
    IF v = NoneV THEN NoneV
    ELSE IF ~IsStr(v) THEN v
    ELSE LET s == Strip(v.s)
         IN  IF s = <<>> THEN StrV(<<>>)
             ELSE IF Contains(s, ";") THEN SemicolonParts(s)
             ELSE IF JsonShaped(s) /\ JsonLoads(s).ok THEN JsonLoads(s).v
             ELSE IF IsIntPattern(s) THEN PyInt(s)
             ELSE IF IsDecimalPattern(s) THEN PyFloat(s)
             ELSE StrV(s)

parse_cell_value(v) ==
    IF v = NoneV THEN NoneV
    ELSE IF ~IsStr(v) THEN v
    ELSE LET s == Strip(v.s)
         IN  IF s = <<>> THEN StrV(<<>>)
             ELSE IF JsonShaped(s) /\ JsonLoads(s).ok THEN JsonLoads(s).v
             ELSE IF Contains(s, ";") THEN SemicolonParts(s)
             ELSE IF IsIntPattern(s) THEN PyInt(s)
             ELSE IF IsDecimalPattern(s) THEN PyFloat(s)
             ELSE StrV(s)

-----------------------------------------------------------------------------
(* Cell inference on its own: one call of _parse_cell_value.               *)

\* every text of at most n characters of the set cs
Texts(cs, n) == UNION {[1..k -> cs] : k \in 0..n}

InferChars == {"[", "]", ";", ",", "1", "0", "-", ".", " ", "a"}
\* the cells the specification names, and cells of the other types
InferSamples ==
    { StrV(<<"[", "1", ",", "2", ",", "3", "]">>),
      StrV(<<"F", "i", "r", "e", ";", " ", "F", "l", "y", "i", "n", "g">>),
      StrV(<<"0", "2", "5">>), StrV(<<"[", "a", ";", "b">>),
      StrV(<<" ", "a", "b", "c", " ">>), StrV(<<"t", "r", "u", "e">>),
      StrV(<<"n", "u", "l", "l">>), StrV(<<"-", "1", ".", "5", "0">>),
      StrV(<<"{", "\"", "a", ";", "\"", ":", "1", "}">>),
      StrV(<<"[", "1", "e", "2", "]">>), StrV(<<"T", "r", "u", "e">>),
      NoneV, NaNV, IntV(7), BoolV(TRUE), FloatV(5, 10) }
CellInputs == {StrV(s) : s \in Texts(InferChars, MaxCellLen)} \cup InferSamples

InitInfer ==
    /\ pc = "infer"
    /\ val \in CellInputs
    /\ parsed = Unset
    /\ RenderIdle /\ EntityIdle /\ MainIdle

ParseCell ==
    /\ pc = "infer"
    /\ parsed' = parse_cell_value(val)
    /\ pc' = "inferred"
    /\ UNCHANGED <<val, renderVars, entityVars, mainVars>>

NextInfer == ParseCell

SpecInfer == InitInfer /\ [][NextInfer]_vars

-----------------------------------------------------------------------------
(* Claims about _parse_cell_value, under SpecInfer.                        *)

\* the texts of a sequence of str values, one after the other
RECURSIVE JoinTexts(_)
JoinTexts(xs) == IF xs = <<>> THEN <<>> ELSE Head(xs).s \o JoinTexts(Tail(xs))

\* the text of v matches none of the inference rules
NoRuleMatches(v) ==
    /\ IsStr(v)
    /\ LET s == Strip(v.s)
       IN  /\ s # <<>>
           /\ ~(JsonShaped(s) /\ JsonLoads(s).ok)
           /\ ~Contains(s, ";")
           /\ ~IsIntPattern(s)
           /\ ~IsDecimalPattern(s)

\* C7: a string cell that matches none of the inference rules is returned as
\* it was given, its leading and trailing whitespace included.
C7_FallbackUntrimmed ==
    (pc = "inferred" /\ NoRuleMatches(val)) => parsed = val

\* parsed is the ordered list of the trimmed non-empty ";"-segments of s
IsSegmentList(s, v) ==
    /\ v.t = "list"
    /\ \A i \in 1..Len(v.xs) :
          /\ v.xs[i].t = "str"
          /\ v.xs[i].s # <<>>
          /\ ~Contains(v.xs[i].s, ";")
          /\ ~IsSpace(Head(v.xs[i].s)) /\ ~IsSpace(v.xs[i].s[Len(v.xs[i].s)])
          /\ \E j \in 1..Len(s) : \E k \in j..Len(s) :
                /\ Strip(SubSeq(s, j, k)) = v.xs[i].s
                /\ (j = 1 \/ s[j - 1] = ";") /\ (k = Len(s) \/ s[k + 1] = ";")
    /\ Without(JoinTexts(v.xs), WhiteSpace) = Without(s, WhiteSpace \cup {";"})

\* C8: the rules of _parse_cell_value apply in a fixed order, first match wins:
\* JSON-shaped text that parses gives the parsed JSON value; otherwise text with
\* ";" gives the list of its trimmed non-empty segments; otherwise the integer
\* pattern gives an int; otherwise the decimal pattern gives a float.
C8_RuleOrder ==
    (pc = "inferred" /\ IsStr(val) /\ Strip(val.s) # <<>>) =>
        LET s == Strip(val.s)
        IN  /\ IF JsonShaped(s) /\ JsonLoads(s).ok THEN parsed = JsonLoads(s).v
               ELSE IF Contains(s, ";") THEN IsSegmentList(s, parsed)
               ELSE IF IsIntPattern(s) THEN parsed = PyInt(s)
               ELSE IF IsDecimalPattern(s) THEN parsed = PyFloat(s)
               ELSE parsed.t = "str"
            /\ s = <<"1", ";", "0">> => parsed = ListV(<<StrV(<<"1">>), StrV(<<"0">>)>>)
            /\ s = <<"[", "a", ";", "b">>
                  => parsed = ListV(<<StrV(<<"[", "a">>), StrV(<<"b">>)>>)
            /\ s = <<"0", "2", "5">> => parsed = IntV(25)
            /\ s = <<"[", "1", ",", "2", ",", "3", "]">>
                  => parsed = ListV(<<IntV(1), IntV(2), IntV(3)>>)
            /\ s = <<"{", "\"", "a", ";", "\"", ":", "1", "}">>
                  => parsed = DictV(<< [k |-> <<"a", ";">>, v |-> IntV(1)] >>)
            /\ s = <<"-", "1", ".", "5", "0">> => parsed = FloatV(-15, 10)

\* an unparseable JSON-shaped cell with a ";" has fallen through to the list rule
C8_Witness ==
    /\ pc = "inferred"
    /\ val = StrV(<<"[", "a", ";", "b">>)
    /\ parsed = ListV(<<StrV(<<"[", "a">>), StrV(<<"b">>)>>)

-----------------------------------------------------------------------------
(* str(v), repr(v) and json.dumps(v, ensure_ascii=False).  Floats are      *)
(* written in plain notation; no text of the model holds a single quote or *)
(* a backslash, so repr quotes with ' and escapes nothing.                 *)

\* an object json cannot serialise (a pandas Timestamp, say); str(v) is its text
ObjV(text) == [t |-> "obj", text |-> text]

RECURSIVE NatText(_)
NatText(n) ==
    IF n < 10 THEN <<DigitChars[n + 1]>> ELSE NatText(n \div 10) \o <<DigitChars[(n % 10) + 1]>>
IntText(n) == IF n < 0 THEN <<"-">> \o NatText(0 - n) ELSE NatText(n)
\* the digits of n, zero-padded on the left to the width of den - 1
RECURSIVE FracText(_, _)
FracText(n, den) ==
    IF den = 1 THEN <<>> ELSE FracText(n \div 10, den \div 10) \o <<DigitChars[(n % 10) + 1]>>
FloatText(num, den) ==
    LET mag == IF num < 0 THEN 0 - num ELSE num
    IN  (IF num < 0 THEN <<"-">> ELSE <<>>) \o NatText(mag \div den) \o <<".">>
            \o (IF den = 1 THEN <<"0">> ELSE FracText(mag % den, den))

RECURSIVE PyStr(_)
RECURSIVE PyRepr(_)
RECURSIVE ReprItems(_)
RECURSIVE ReprMembers(_)
PyStr(v) ==
    CASE v.t = "str" -> v.s
      [] v.t = "int" -> IntText(v.n)
      [] v.t = "bool" -> IF v.b THEN <<"T", "r", "u", "e">> ELSE <<"F", "a", "l", "s", "e">>
      [] v.t = "none" -> <<"N", "o", "n", "e">>
      [] v.t = "nan" -> <<"n", "a", "n">>
      [] v.t = "inf" -> IF v.neg THEN <<"-", "i", "n", "f">> ELSE <<"i", "n", "f">>
      [] v.t = "float" -> FloatText(v.num, v.den)
      [] v.t = "list" -> <<"[">> \o ReprItems(v.xs) \o <<"]">>
      [] v.t = "dict" -> <<"{">> \o ReprMembers(v.kv) \o <<"}">>
      [] v.t = "obj" -> v.text
PyRepr(v) == IF v.t = "str" THEN <<"'">> \o v.s \o <<"'">> ELSE PyStr(v)
ReprItems(xs) ==
    IF xs = <<>> THEN <<>>
    ELSE PyRepr(Head(xs)) \o (IF Len(xs) > 1 THEN <<",", " ">> ELSE <<>>) \o ReprItems(Tail(xs))
ReprMembers(kv) ==
    IF kv = <<>> THEN <<>>
    ELSE PyRepr(StrV(Head(kv).k)) \o <<":", " ">> \o PyRepr(Head(kv).v)
            \o (IF Len(kv) > 1 THEN <<",", " ">> ELSE <<>>) \o ReprMembers(Tail(kv))

\* a JSON string literal: only the double quote needs its backslash here
RECURSIVE JsonEscape(_)
JsonEscape(s) ==
    IF s = <<>> THEN <<>>
    ELSE (IF Head(s) = "\"" THEN <<"\\", "\"">> ELSE <<Head(s)>>) \o JsonEscape(Tail(s))
JsonQuote(s) == <<"\"">> \o JsonEscape(s) \o <<"\"">>

\* whether json.dumps(v) returns (it raises TypeError on an object it cannot serialise)
RECURSIVE JsonSerialisable(_)
JsonSerialisable(v) ==
    CASE v.t = "obj" -> FALSE
      [] v.t = "list" -> \A i \in 1..Len(v.xs) : JsonSerialisable(v.xs[i])
      [] v.t = "dict" -> \A i \in 1..Len(v.kv) : JsonSerialisable(v.kv[i].v)
      [] OTHER -> TRUE
RECURSIVE JsonText(_)
RECURSIVE JsonTextItems(_)
RECURSIVE JsonTextMembers(_)
\* the text json.dumps(v, ensure_ascii=False) returns, for v serialisable
JsonText(v) ==
    CASE v.t = "str" -> JsonQuote(v.s)
      [] v.t = "int" -> IntText(v.n)
      [] v.t = "bool" -> IF v.b THEN <<"t", "r", "u", "e">> ELSE <<"f", "a", "l", "s", "e">>
      [] v.t = "none" -> <<"n", "u", "l", "l">>
      [] v.t = "nan" -> <<"N", "a", "N">>
      [] v.t = "inf" -> IF v.neg THEN <<"-", "I", "n", "f", "i", "n", "i", "t", "y">> ELSE <<"I", "n", "f", "i", "n", "i", "t", "y">>
      [] v.t = "float" -> FloatText(v.num, v.den)
      [] v.t = "list" -> <<"[">> \o JsonTextItems(v.xs) \o <<"]">>
      [] v.t = "dict" -> <<"{">> \o JsonTextMembers(v.kv) \o <<"}">>
JsonTextItems(xs) ==
    IF xs = <<>> THEN <<>>
    ELSE JsonText(Head(xs)) \o (IF Len(xs) > 1 THEN <<",", " ">> ELSE <<>>) \o JsonTextItems(Tail(xs))
JsonTextMembers(kv) ==
    IF kv = <<>> THEN <<>>
    ELSE JsonQuote(Head(kv).k) \o <<":", " ">> \o JsonText(Head(kv).v)
            \o (IF Len(kv) > 1 THEN <<",", " ">> ELSE <<>>) \o JsonTextMembers(Tail(kv))
\* json.dumps(v, ensure_ascii=False): the text, or the TypeError raised
JsonDumps(v) == IF JsonSerialisable(v) THEN StrV(JsonText(v)) ELSE Raised("TypeError")

-----------------------------------------------------------------------------
(* _render_node                                                            *)

\* dict.get(key, default) on the items of a dict
DictGet(kv, key, default) ==
    IF \E i \in 1..Len(kv) : kv[i].k = key
    THEN kv[CHOOSE i \in 1..Len(kv) : kv[i].k = key].v
    ELSE default
DictKeys(kv) == {kv[i].k : i \in 1..Len(kv)}

\* a character class that takes any character but a brace
IsNameChar_any(c) == c \notin {"{", "}"}

\* [A-Za-z0-9_]
IsNameChar(c) ==
    c \in Range(UpperChars) \cup Range(LowerChars) \cup Range(DigitChars) \cup {"_"}
RECURSIVE NameRun(_)
NameRun(s) ==
    IF s # <<>> /\ IsNameChar(Head(s)) THEN <<Head(s)>> \o NameRun(Tail(s)) ELSE <<>>
\* r"\{\{([A-Za-z0-9_]+)\}\}" matched at the head of s: group 1, or <<>> when no match
MatchAtHead(s) ==
    IF StartsWith(s, <<"{", "{">>)
    THEN LET name == NameRun(Drop(s, 2))
         IN  IF name # <<>> /\ StartsWith(Drop(s, 2 + Len(name)), <<"}", "}">>) THEN name ELSE <<>>
    ELSE <<>>
\* re.fullmatch of the pattern on s: group 1, or <<>> when no match
FullMatch(s) ==
    IF MatchAtHead(s) # <<>> /\ Len(s) = Len(MatchAtHead(s)) + 4 THEN MatchAtHead(s) ELSE <<>>

POKEMON_TEAM_LIST == <<"P", "O", "K", "E", "M", "O", "N", "_", "T", "E", "A", "M", "_", "L", "I", "S", "T">>

\* repl with row.get(k) in place of row.get(k, ""), and str() of whatever comes
Repl_no_default(k, row, pokemon_list) ==
    IF k = POKEMON_TEAM_LIST /\ pokemon_list # NoneV
    THEN IF JsonDumps(pokemon_list).t = "raise" THEN StrV(PyStr(pokemon_list))
         ELSE JsonDumps(pokemon_list)
    ELSE StrV(PyStr(DictGet(row, k, NoneV)))

\* repl(match) of _render_node: the text put in place of the placeholder k
Repl(k, row, pokemon_list) ==
    IF k = POKEMON_TEAM_LIST /\ pokemon_list # NoneV
    THEN IF JsonDumps(pokemon_list).t = "raise" THEN StrV(PyStr(pokemon_list))
         ELSE JsonDumps(pokemon_list)
    ELSE LET v == DictGet(row, k, StrV(<<>>))
         IN  IF v = NoneV THEN StrV(<<>>) ELSE StrV(PyStr(v))

\* re.sub(pattern, repl, s): the text, or the exception a call of repl raised
RECURSIVE Sub(_, _, _)
Sub(s, row, pokemon_list) ==
    IF s = <<>> THEN StrV(<<>>)
    ELSE LET k == MatchAtHead(s)
             head == IF k # <<>> THEN Repl(k, row, pokemon_list) ELSE StrV(<<Head(s)>>)
             tail == Sub(IF k # <<>> THEN Drop(s, Len(k) + 4) ELSE Tail(s), row, pokemon_list)
         IN  IF head.t = "raise" THEN head
             ELSE IF tail.t = "raise" THEN tail
             ELSE StrV(head.s \o tail.s)

\* the first exception among rendered children, if any
FirstRaised(vs) == vs[CHOOSE i \in 1..Len(vs) : vs[i].t = "raise" /\ \A j \in 1..(i - 1) : vs[j].t # "raise"]
AnyRaised(vs) == \E i \in 1..Len(vs) : vs[i].t = "raise"

\* _render_node with the exact-placeholder branch left out: every leaf goes through re.sub
RECURSIVE render_node_all_sub(_, _, _)
render_node_all_sub(node, row, pokemon_list) ==
    IF node.t = "dict" THEN
        LET vs == [i \in 1..Len(node.kv) |->
                      render_node_all_sub(node.kv[i].v, row, pokemon_list)]
        IN  IF AnyRaised(vs) THEN FirstRaised(vs)
            ELSE DictV([i \in 1..Len(node.kv) |-> [k |-> node.kv[i].k, v |-> vs[i]]])
    ELSE IF node.t = "list" THEN
        LET vs == [i \in 1..Len(node.xs) |-> render_node_all_sub(node.xs[i], row, pokemon_list)]
        IN  IF AnyRaised(vs) THEN FirstRaised(vs) ELSE ListV(vs)
    ELSE IF node.t # "str" THEN node
    ELSE Sub(node.s, row, pokemon_list)

RECURSIVE render_node(_, _, _)
render_node(node, row, pokemon_list) ==
    IF node.t = "dict" THEN
        LET vs == [i \in 1..Len(node.kv) |-> render_node(node.kv[i].v, row, pokemon_list)]
        IN  IF AnyRaised(vs) THEN FirstRaised(vs)
            ELSE DictV([i \in 1..Len(node.kv) |-> [k |-> node.kv[i].k, v |-> vs[i]]])
    ELSE IF node.t = "list" THEN
        LET vs == [i \in 1..Len(node.xs) |-> render_node(node.xs[i], row, pokemon_list)]
        IN  IF AnyRaised(vs) THEN FirstRaised(vs) ELSE ListV(vs)
    ELSE IF node.t # "str" THEN node
    ELSE LET key == FullMatch(node.s)
         IN  IF key # <<>>
             THEN IF key = POKEMON_TEAM_LIST /\ pokemon_list # NoneV THEN pokemon_list
                  ELSE parse_cell_value(DictGet(row, key, StrV(<<>>)))
             ELSE Sub(node.s, row, pokemon_list)

-----------------------------------------------------------------------------
(* Rendering on its own: one call of _render_node.                         *)

\* the pieces template leaf strings are put together from
Pieces ==
    { <<"{", "{", "X", "}", "}">>, <<"{", "{", "Y", "}", "}">>, <<"{", "{", "P", "O", "K", "E", "M", "O", "N", "_", "T", "E", "A", "M", "_", "L", "I", "S", "T", "}", "}">>, <<"a", " ">>,
      <<"{", "{", "b", " ", "n", "}", "}">>, <<"{", "{", "}", "}">>, <<"{">>, <<"}", "}">> }
RECURSIVE LeafTexts(_)
LeafTexts(n) ==
    IF n = 0 THEN {<<>>}
    ELSE LeafTexts(n - 1) \cup {a \o p : a \in LeafTexts(n - 1), p \in Pieces}

\* the template trees around a leaf string l
TemplatesOf(l) ==
    { StrV(l),
      DictV(<< [k |-> <<"n", "a", "m", "e">>, v |-> StrV(l)], [k |-> <<"n">>, v |-> IntV(5)],
               [k |-> <<"{", "{", "X", "}", "}">>, v |-> BoolV(TRUE)] >>),
      ListV(<< StrV(l), NoneV,
               DictV(<< [k |-> <<"i", "n">>, v |-> ListV(<<StrV(l), FloatV(5, 10)>>)] >>) >>) }
Templates == UNION {TemplatesOf(l) : l \in LeafTexts(MaxPieces)}

\* the values the field X of a context record takes
XValues ==
    { StrV(<<"[", "1", ",", "2", ",", "3", "]">>), StrV(<<"5">>), StrV(<<" ", "a", " ">>), StrV(<<>>), StrV(<<"1", ";", "0">>),
      StrV(<<"{", "{", "Y", "}", "}">>), NoneV, NaNV, IntV(5) }
ContextRows ==
    {<<>>, << [k |-> <<"x">>, v |-> StrV(<<"5">>)] >>}
        \cup {<< [k |-> <<"X">>, v |-> x] >> : x \in XValues}
        \cup {<< [k |-> <<"X">>, v |-> x], [k |-> POKEMON_TEAM_LIST, v |-> StrV(<<"t">>)] >> :
                x \in {StrV(<<"5">>), NoneV}}

SampleEntity ==
    DictV(<< [k |-> <<"s", "p", "e", "c", "i", "e", "s">>, v |-> StrV(<<"p", "i", "k", "a", "c", "h", "u">>)], [k |-> <<"l", "e", "v", "e", "l">>, v |-> IntV(5)] >>)
EntityLists ==
    { NoneV, ListV(<<>>), ListV(<<SampleEntity>>),
      ListV(<<SampleEntity, ObjV(<<"2", "0", "2", "4", "-", "0", "1", "-", "0", "1">>)>>) }

InitRender ==
    /\ pc = "render"
    /\ tree \in Templates
    /\ ctx \in ContextRows
    /\ team \in EntityLists
    /\ rendered = Unset
    /\ InferIdle /\ EntityIdle /\ MainIdle

RenderNode ==
    /\ pc = "render"
    /\ rendered' = render_node(tree, ctx, team)
    /\ pc' = "rendered"
    /\ UNCHANGED <<tree, ctx, team, inferVars, entityVars, mainVars>>

NextRender == RenderNode

SpecRender == InitRender /\ [][NextRender]_vars

-----------------------------------------------------------------------------
(* Claims about _render_node, under SpecRender.  The placeholder token is  *)
(* stated here from the specification's words, not from the renderer.      *)

IsIdentChar(c) ==
    c \in Range(UpperChars) \cup Range(LowerChars) \cup Range(DigitChars) \cup {"_"}
\* s[i..j] is a placeholder token {{NAME}}, NAME one or more identifier characters
PlaceholderAt(s, i, j) ==
    /\ 1 <= i /\ i + 4 <= j /\ j <= Len(s)
    /\ s[i] = "{" /\ s[i + 1] = "{" /\ s[j - 1] = "}" /\ s[j] = "}"
    /\ \A m \in (i + 2)..(j - 2) : IsIdentChar(s[m])
HasPlaceholder(s) == \E i \in 1..Len(s) : \E j \in i..Len(s) : PlaceholderAt(s, i, j)
IsExactlyPlaceholder(s) == PlaceholderAt(s, 1, Len(s))
TokenName(s) == SubSeq(s, 3, Len(s) - 2)
TokenNames(s) ==
    {SubSeq(s, i + 2, j - 2) : <<i, j>> \in {ij \in (1..Len(s)) \X (1..Len(s)) :
                                                PlaceholderAt(s, ij[1], ij[2])}}
\* s with every placeholder token {{NAME}} replaced by f[NAME], left to right
RECURSIVE ExpandWith(_, _)
ExpandWith(s, f) ==
    IF s = <<>> THEN <<>>
    ELSE IF \E j \in 1..Len(s) : PlaceholderAt(s, 1, j)
         THEN LET j == CHOOSE j \in 1..Len(s) : PlaceholderAt(s, 1, j)
              IN  f[SubSeq(s, 3, j - 2)] \o ExpandWith(Drop(s, j), f)
         ELSE <<Head(s)>> \o ExpandWith(Tail(s), f)

BadPair == [bad |-> TRUE, leaf |-> <<>>, out |-> Unset]
\* the leaf strings of a template, each with what stands in its place in the output;
\* BadPair when the output has another shape or changes a scalar that is not a string
RECURSIVE LeafPairs(_, _)
LeafPairs(tpl, out) ==
    IF tpl.t = "dict" THEN
        IF out.t = "dict" /\ Len(out.kv) = Len(tpl.kv)
              /\ \A i \in 1..Len(tpl.kv) : out.kv[i].k = tpl.kv[i].k
        THEN UNION {LeafPairs(tpl.kv[i].v, out.kv[i].v) : i \in 1..Len(tpl.kv)}
        ELSE {BadPair}
    ELSE IF tpl.t = "list" THEN
        IF out.t = "list" /\ Len(out.xs) = Len(tpl.xs)
        THEN UNION {LeafPairs(tpl.xs[i], out.xs[i]) : i \in 1..Len(tpl.xs)}
        ELSE {BadPair}
    ELSE IF tpl.t = "str" THEN {[bad |-> FALSE, leaf |-> tpl.s, out |-> out]}
    ELSE IF out = tpl THEN {} ELSE {BadPair}

\* the entity list stands for the placeholder name
IsTeamToken(name) == name = <<"P", "O", "K", "E", "M", "O", "N", "_", "T", "E", "A", "M", "_", "L", "I", "S", "T">> /\ team # NoneV
\* the text the code puts for a placeholder that names a field of the record
FieldText(name) == Repl(name, ctx, team).s

\* C1 as stated: render never raises, and every placeholder whose name is not
\* a field of the context record resolves to the empty string, as the whole
\* value of an exact-placeholder leaf and as an empty fragment inside a longer leaf.
C1_UnresolvedIsEmpty ==
    pc = "rendered" =>
        /\ rendered.t # "raise"
        /\ \A p \in LeafPairs(tree, rendered) :
              /\ ~p.bad
              /\ (IsExactlyPlaceholder(p.leaf) /\ TokenName(p.leaf) \notin DictKeys(ctx))
                    => p.out = StrV(<<>>)
              /\ (HasPlaceholder(p.leaf) /\ ~IsExactlyPlaceholder(p.leaf))
                    => p.out = StrV(ExpandWith(p.leaf,
                          [n \in TokenNames(p.leaf) |->
                              IF n \notin DictKeys(ctx) THEN <<>> ELSE FieldText(n)]))

\* C1 amended: render never raises, and every placeholder whose name is not a
\* field of the context record resolves to the empty string, except the
\* entity-list placeholder when an entity list is given, which resolves to the
\* entity list (its JSON text inside a longer leaf).
C1_UnresolvedIsEmptyOrTeam ==
    pc = "rendered" =>
        /\ rendered.t # "raise"
        /\ \A p \in LeafPairs(tree, rendered) :
              /\ ~p.bad
              /\ (IsExactlyPlaceholder(p.leaf) /\ TokenName(p.leaf) \notin DictKeys(ctx))
                    => p.out = (IF IsTeamToken(TokenName(p.leaf)) THEN team
                                ELSE StrV(<<>>))
              /\ (HasPlaceholder(p.leaf) /\ ~IsExactlyPlaceholder(p.leaf))
                    => p.out = StrV(ExpandWith(p.leaf,
                          [n \in TokenNames(p.leaf) |->
                              IF IsTeamToken(n) THEN
                                  (IF JsonSerialisable(team)
                                   THEN JsonText(team) ELSE PyStr(team))
                              ELSE IF n \notin DictKeys(ctx) THEN <<>>
                              ELSE FieldText(n)]))

\* an unresolved placeholder inside a longer leaf has left an empty fragment
C1_Witness ==
    /\ pc = "rendered"
    /\ tree = StrV(<<"a", " ", "{", "{", "Y", "}", "}">>)
    /\ <<"Y">> \notin DictKeys(ctx)
    /\ rendered = StrV(<<"a", " ">>)

\* C2: a leaf that is exactly one placeholder yields the resolved value in its
\* inferred type (the entity list itself for the entity-list placeholder);
\* every other leaf string yields a string.
C2_WholeTypedElseString ==
    pc = "rendered" =>
        \A p \in LeafPairs(tree, rendered) :
            /\ ~p.bad
            /\ IF IsExactlyPlaceholder(p.leaf)
               THEN p.out = (IF IsTeamToken(TokenName(p.leaf)) THEN team
                             ELSE parse_cell_value(
                                      DictGet(ctx, TokenName(p.leaf), StrV(<<>>))))
               ELSE p.out.t = "str"
            /\ (p.leaf = <<"{", "{", "X", "}", "}">> /\ DictGet(ctx, <<"X">>, NoneV) = StrV(<<"[", "1", ",", "2", ",", "3", "]">>))
                  => p.out = ListV(<<IntV(1), IntV(2), IntV(3)>>)
            /\ (p.leaf = <<"a", " ", "{", "{", "X", "}", "}">> /\ DictGet(ctx, <<"X">>, NoneV) \in {StrV(<<"5">>), IntV(5)})
                  => p.out = StrV(<<"a", " ", "5">>)

\* the field X holds JSON array text and the leaf {{X}} has become the list
C2_Witness ==
    /\ pc = "rendered"
    /\ tree = StrV(<<"{", "{", "X", "}", "}">>)
    /\ DictGet(ctx, <<"X">>, NoneV) = StrV(<<"[", "1", ",", "2", ",", "3", "]">>)
    /\ rendered = ListV(<<IntV(1), IntV(2), IntV(3)>>)

\* no leaf string of the tree holds a placeholder token
RECURSIVE NoPlaceholders(_)
NoPlaceholders(tpl) ==
    CASE tpl.t = "dict" -> \A i \in 1..Len(tpl.kv) : NoPlaceholders(tpl.kv[i].v)
      [] tpl.t = "list" -> \A i \in 1..Len(tpl.xs) : NoPlaceholders(tpl.xs[i])
      [] tpl.t = "str" -> ~HasPlaceholder(tpl.s)
      [] OTHER -> TRUE

\* C3: a template with no placeholder token in any leaf string renders to
\* itself, malformed placeholder text included.
C3_NoPlaceholderIdentity ==
    (pc = "rendered" /\ NoPlaceholders(tree)) => rendered = tree

\* a leaf with malformed placeholder text has been rendered
C3_Witness ==
    /\ pc = "rendered"
    /\ tree = ListV(<< StrV(<<"{", "{", "b", " ", "n", "}", "}", "{", "{", "}", "}">>), NoneV,
                       DictV(<< [k |-> <<"i", "n">>,
                                 v |-> ListV(<<StrV(<<"{", "{", "b", " ", "n", "}", "}", "{", "{", "}", "}">>), FloatV(5, 10)>>)] >>) >>)
    /\ rendered = tree

-----------------------------------------------------------------------------
(* _pokemon_from_row: the field lookup cell, the attribute mapping and the *)
(* rendering of the entity template.  A record is the sequence of its      *)
(* items [k, v], k the column label.                                       *)

\* bool(v)
Truthy(v) ==
    CASE v.t = "none" -> FALSE
      [] v.t = "str" -> v.s # <<>>
      [] v.t = "int" -> v.n # 0
      [] v.t = "bool" -> v.b
      [] v.t = "float" -> v.num # 0
      [] v.t = "list" -> v.xs # <<>>
      [] v.t = "dict" -> v.kv # <<>>
      [] OTHER -> TRUE
\* a or b
Or(a, b) == IF Truthy(a) THEN a ELSE b

\* cell(name): row.get(name) when name.strip() is a label, else the first
\* column whose label equals name after lower() and strip(), else None
cell(row, name) ==
    IF Strip(name) \in DictKeys(row) THEN DictGet(row, name, NoneV)
    ELSE IF \E i \in 1..Len(row) : Strip(Lower(row[i].k)) = Strip(Lower(name))
    THEN row[CHOOSE i \in 1..Len(row) :
                /\ Strip(Lower(row[i].k)) = Strip(Lower(name))
                /\ \A j \in 1..(i - 1) : Strip(Lower(row[j].k)) # Strip(Lower(name))].v
    ELSE NoneV

\* re.sub(r"\s+", rep, s)
RECURSIVE SubSpaceRuns(_, _)
SubSpaceRuns(s, rep) ==
    IF s = <<>> THEN <<>>
    ELSE IF IsSpace(Head(s)) THEN rep \o SubSpaceRuns(LStrip(s), rep)
    ELSE <<Head(s)>> \o SubSpaceRuns(Tail(s), rep)

\* re.sub(r"[^a-z0-9_]", "", s) left out
KeepIdent_all(s) == s
\* re.sub(r"[^a-z0-9_]", "", s)
KeepIdent(s) ==
    SelectSeq(s, LAMBDA c : c \in Range(LowerChars) \cup Range(DigitChars) \cup {"_"})

\* re.sub(r"\s+", "", c or "").lower(), then the filter: TypeError when c or "" is no str
TightIdent(c) ==
    LET x == Or(c, StrV(<<>>))
    IN  IF x.t # "str" THEN Raised("TypeError")
        ELSE StrV(KeepIdent(Lower(SubSpaceRuns(x.s, <<>>))))
\* re.sub(r"\s+", "_", str(c or "").strip()).lower(), then the filter
LooseIdent(c) ==
    StrV(KeepIdent(Lower(SubSpaceRuns(Strip(PyStr(Or(c, StrV(<<>>)))), <<"_">>))))

IsNaN(v) == v.t = "nan"
\* type(v) in (str, int, float)
IsStrIntFloat(v) == v.t \in {"str", "int", "float", "nan", "inf"}

\* [x.strip() for x in str(c).split(",") if x.strip() != ""], or [] for other cells
AspectList(c) ==
    IF IsStrIntFloat(c) /\ c # StrV(<<>>) /\ ~IsNaN(c)
    THEN LET parts == StripNonEmpty(Split(PyStr(c), ","))
         IN  ListV([i \in 1..Len(parts) |-> StrV(parts[i])])
    ELSE ListV(<<>>)

\* the label f"Slot {i}"
SlotName(i) == <<"S", "l", "o", "t", " ">> \o NatText(i)
\* every cell of a slot taken as a move
IsMove_any(c) == TRUE
\* whether the cell of a slot is taken as a move
IsMove(c) ==
    c # NoneV /\ c # BoolV(FALSE) /\ Strip(PyStr(c)) # <<>> /\ ~IsNaN(c)
\* the sanitized move of a slot cell
MoveIdent(c) == StrV(KeepIdent(Lower(SubSpaceRuns(Strip(PyStr(c)), <<>>))))
\* the moves of the slots i..4, in slot order
RECURSIVE Moves(_, _)
Moves(row, i) ==
    IF i > 4 THEN <<>>
    ELSE (IF IsMove(cell(row, SlotName(i))) THEN <<MoveIdent(cell(row, SlotName(i)))>>
          ELSE <<>>) \o Moves(row, i + 1)

\* c.lower() or default / c.upper() or default: AttributeError when c is no str
LowerOr(c, default) ==
    IF c.t # "str" THEN Raised("AttributeError") ELSE Or(StrV(Lower(c.s)), StrV(default))
UpperOr(c, default) ==
    IF c.t # "str" THEN Raised("AttributeError") ELSE Or(StrV(Upper(c.s)), StrV(default))

\* int(v) if isinstance(v, (int, float)) else v
StatValue(v) ==
    CASE v.t = "bool" -> IntV(IF v.b THEN 1 ELSE 0)
      [] v.t = "float" ->
            IntV(IF v.num < 0 THEN 0 - ((0 - v.num) \div v.den) ELSE v.num \div v.den)
      [] v.t = "nan" -> Raised("ValueError")
      [] v.t = "inf" -> Raised("OverflowError")
      [] OTHER -> v

Stats == <<<<"H", "P">>, <<"A", "T", "K">>, <<"D", "E", "F">>, <<"S", "P", "A">>, <<"S", "P", "D">>, <<"S", "P", "E">>>>
\* the items POKEMON_IV_<stat>, POKEMON_EV_<stat> of the mapping, stat by stat
StatItems(iv, ev) ==
    [i \in 1..(2 * Len(Stats)) |->
        IF i % 2 = 1 THEN [k |-> <<"P", "O", "K", "E", "M", "O", "N", "_", "I", "V", "_">> \o Stats[(i + 1) \div 2], v |-> StatValue(iv)]
        ELSE [k |-> <<"P", "O", "K", "E", "M", "O", "N", "_", "E", "V", "_">> \o Stats[i \div 2], v |-> StatValue(ev)]]

\* the mapping of _pokemon_from_row, in the order its items are assigned
PokemonMapping(row) ==
    << [k |-> <<"P", "O", "K", "E", "M", "O", "N", "_", "N", "A", "M", "E">>, v |-> TightIdent(cell(row, <<"P", "o", "k", "e", "m", "o", "n">>))],
       [k |-> <<"P", "O", "K", "E", "M", "O", "N", "_", "L", "E", "V", "E", "L">>,
        v |-> parse_cell_value(Or(Or(cell(row, <<"L", "e", "v", "e", "l">>), cell(row, <<"l", "e", "v", "e", "l">>)), StrV(<<>>)))],
       [k |-> <<"P", "O", "K", "E", "M", "O", "N", "_", "A", "S", "P", "E", "C", "T", "_", "L", "I", "S", "T">>, v |-> AspectList(cell(row, <<"A", "s", "p", "e", "c", "t">>))],
       [k |-> <<"P", "O", "K", "E", "M", "O", "N", "_", "M", "O", "V", "E", "S", "E", "T", "_", "L", "I", "S", "T">>, v |-> ListV(Moves(row, 0))],
       [k |-> <<"P", "O", "K", "E", "M", "O", "N", "_", "A", "B", "I", "L", "I", "T", "Y">>, v |-> TightIdent(cell(row, <<"A", "b", "i", "l", "i", "t", "y">>))],
       [k |-> <<"P", "O", "K", "E", "M", "O", "N", "_", "H", "E", "L", "D", "_", "I", "T", "E", "M">>, v |-> LooseIdent(cell(row, <<"I", "t", "e", "m">>))],
       [k |-> <<"P", "O", "K", "E", "M", "O", "N", "_", "N", "A", "T", "U", "R", "E">>, v |-> LowerOr(cell(row, <<"N", "a", "t", "u", "r", "e">>), <<"d", "o", "c", "i", "l", "e">>)],
       [k |-> <<"P", "O", "K", "E", "M", "O", "N", "_", "G", "E", "N", "D", "E", "R">>, v |-> UpperOr(cell(row, <<"G", "e", "n", "d", "e", "r">>), <<"M", "A", "L", "E">>)] >>
    \o StatItems(parse_cell_value(cell(row, <<"I", "V", "s">>)), parse_cell_value(cell(row, <<"E", "V", "s">>)))

\* repl(match) of _render_pokemon_node_from_map
MapRepl(k, mapping) ==
    IF DictGet(mapping, k, NoneV) = NoneV THEN <<>> ELSE PyStr(DictGet(mapping, k, NoneV))
RECURSIVE MapSub(_, _)
MapSub(s, mapping) ==
    IF s = <<>> THEN <<>>
    ELSE IF MatchAtHead(s) # <<>>
         THEN MapRepl(MatchAtHead(s), mapping) \o MapSub(Drop(s, Len(MatchAtHead(s)) + 4), mapping)
         ELSE <<Head(s)>> \o MapSub(Tail(s), mapping)

RECURSIVE render_pokemon_node_from_map(_, _)
render_pokemon_node_from_map(node, mapping) ==
    IF node.t = "dict" THEN
        DictV([i \in 1..Len(node.kv) |->
                  [k |-> node.kv[i].k, v |-> render_pokemon_node_from_map(node.kv[i].v, mapping)]])
    ELSE IF node.t = "list" THEN
        ListV([i \in 1..Len(node.xs) |-> render_pokemon_node_from_map(node.xs[i], mapping)])
    ELSE IF node.t # "str" THEN node
    ELSE IF FullMatch(node.s) # <<>> THEN DictGet(mapping, FullMatch(node.s), StrV(<<>>))
    ELSE StrV(MapSub(node.s, mapping))

\* the template rendered from the mapping, or the first exception an assignment raised
RenderMapping(mapping, pokemon_template_obj) ==
    IF AnyRaised([i \in 1..Len(mapping) |-> mapping[i].v])
    THEN FirstRaised([i \in 1..Len(mapping) |-> mapping[i].v])
    ELSE render_pokemon_node_from_map(pokemon_template_obj, mapping)

\* _pokemon_from_row
pokemon_from_row(row, pokemon_template_obj) ==
    RenderMapping(PokemonMapping(row), pokemon_template_obj)

-----------------------------------------------------------------------------
(* The field lookup on its own: cell(name) on a record.                    *)

\* column labels; the labels of one record differ after strip() and lower()
ColumnNames == {<<"a", "b">>, <<"A", "B">>, <<" ", "a", "b">>, <<"A", "b", " ">>, <<"c", "d">>, <<"C", "D", " ">>, <<"e">>}
FieldNames == {<<"a", "b">>, <<"A", "b">>, <<"c", "d">>, <<"e">>, <<"z", "z">>}
Fold(label) == Strip(Lower(label))
\* the records of n columns: column i holds the integer i
RecordsOf(n) ==
    { [i \in 1..n |-> [k |-> ks[i], v |-> IntV(i)]] :
        ks \in {f \in [1..n -> ColumnNames] :
                   \A i \in 1..n : \A j \in 1..n : i # j => Fold(f[i]) # Fold(f[j])} }
CellRecords == UNION {RecordsOf(n) : n \in 0..MaxCols}

InitCell ==
    /\ pc = "cell"
    /\ series \in CellRecords
    /\ field \in FieldNames
    /\ got = Unset
    /\ pokemon = Unset
    /\ InferIdle /\ RenderIdle /\ MainIdle

\* the three lookups the resolver is asked for: name, name.upper() and " name "
Resolve ==
    /\ pc = "cell"
    /\ got' = [plain |-> cell(series, field),
               upper |-> cell(series, Upper(field)),
               padded |-> cell(series, <<" ">> \o field \o <<" ">>)]
    /\ pc' = "resolved"
    /\ UNCHANGED <<series, field, pokemon, inferVars, renderVars, mainVars>>

NextCell == Resolve

SpecCell == InitCell /\ [][NextCell]_vars

\* C4: the field resolver is case- and trim-insensitive: looking up f, f
\* upper-cased and f padded with whitespace return the same value, the value of
\* the matching field when there is one and nothing (None) otherwise.
C4_CaseTrimInsensitive ==
    pc = "resolved" =>
        /\ got.plain = got.upper
        /\ got.plain = got.padded
        /\ \A i \in 1..Len(series) : Fold(series[i].k) = Fold(field) => got.plain = series[i].v
        /\ (\A i \in 1..Len(series) : Fold(series[i].k) # Fold(field)) => got.plain = NoneV

-----------------------------------------------------------------------------
(* The entity builder on its own: one call of _pokemon_from_row.           *)

\* an entity template: every attribute as a whole leaf, two leaves with text
PokemonTemplate ==
    DictV(<< [k |-> <<"s", "p", "e", "c", "i", "e", "s">>, v |-> StrV(<<"{", "{", "P", "O", "K", "E", "M", "O", "N", "_", "N", "A", "M", "E", "}", "}">>)],
             [k |-> <<"l", "e", "v", "e", "l">>, v |-> StrV(<<"{", "{", "P", "O", "K", "E", "M", "O", "N", "_", "L", "E", "V", "E", "L", "}", "}">>)],
             [k |-> <<"a", "s", "p", "e", "c", "t", "s">>, v |-> StrV(<<"{", "{", "P", "O", "K", "E", "M", "O", "N", "_", "A", "S", "P", "E", "C", "T", "_", "L", "I", "S", "T", "}", "}">>)],
             [k |-> <<"m", "o", "v", "e", "s", "e", "t">>, v |-> StrV(<<"{", "{", "P", "O", "K", "E", "M", "O", "N", "_", "M", "O", "V", "E", "S", "E", "T", "_", "L", "I", "S", "T", "}", "}">>)],
             [k |-> <<"a", "b", "i", "l", "i", "t", "y">>, v |-> StrV(<<"{", "{", "P", "O", "K", "E", "M", "O", "N", "_", "A", "B", "I", "L", "I", "T", "Y", "}", "}">>)],
             [k |-> <<"h", "e", "l", "d", "I", "t", "e", "m">>, v |-> StrV(<<"{", "{", "P", "O", "K", "E", "M", "O", "N", "_", "H", "E", "L", "D", "_", "I", "T", "E", "M", "}", "}">>)],
             [k |-> <<"n", "a", "t", "u", "r", "e">>, v |-> StrV(<<"{", "{", "P", "O", "K", "E", "M", "O", "N", "_", "N", "A", "T", "U", "R", "E", "}", "}">>)],
             [k |-> <<"g", "e", "n", "d", "e", "r">>, v |-> StrV(<<"{", "{", "P", "O", "K", "E", "M", "O", "N", "_", "G", "E", "N", "D", "E", "R", "}", "}">>)],
             [k |-> <<"i", "v", "s">>, v |-> DictV(<< [k |-> <<"h", "p">>, v |-> StrV(<<"{", "{", "P", "O", "K", "E", "M", "O", "N", "_", "I", "V", "_", "H", "P", "}", "}">>)],
                                           [k |-> <<"s", "p", "e">>, v |-> StrV(<<"{", "{", "P", "O", "K", "E", "M", "O", "N", "_", "I", "V", "_", "S", "P", "E", "}", "}">>)] >>)],
             [k |-> <<"e", "v", "s">>, v |-> ListV(<< StrV(<<"{", "{", "P", "O", "K", "E", "M", "O", "N", "_", "E", "V", "_", "H", "P", "}", "}">>),
                                           StrV(<<"{", "{", "P", "O", "K", "E", "M", "O", "N", "_", "E", "V", "_", "A", "T", "K", "}", "}">>) >>)],
             [k |-> <<"l", "a", "b", "e", "l">>, v |-> StrV(<<"{", "{", "P", "O", "K", "E", "M", "O", "N", "_", "N", "A", "M", "E", "}", "}", " ", "l", "v", " ", "{", "{", "P", "O", "K", "E", "M", "O", "N", "_", "L", "E", "V", "E", "L", "}", "}">>)],
             [k |-> <<"s", "h", "i", "n", "y">>, v |-> StrV(<<"{", "{", "P", "O", "K", "E", "M", "O", "N", "_", "S", "H", "I", "N", "Y", "}", "}">>)],
             [k |-> <<"v", "e", "r", "s", "i", "o", "n">>, v |-> IntV(1)] >>)

\* a complete record; its slot cells are the specification's moveset example
BaseRecord ==
    << [k |-> <<"P", "o", "k", "e", "m", "o", "n">>, v |-> StrV(<<"M", "r", " ", "M", "i", "m", "e">>)],
       [k |-> <<"L", "e", "v", "e", "l">>, v |-> IntV(25)],
       [k |-> <<"A", "s", "p", "e", "c", "t">>, v |-> StrV(<<"a", "l", "o", "l", "a", "n", ",", " ", "s", "h", "i", "n", "y">>)],
       [k |-> <<"S", "l", "o", "t", " ", "0">>, v |-> StrV(<<"T", "a", "c", "k", "l", "e">>)],
       [k |-> <<"S", "l", "o", "t", " ", "1">>, v |-> StrV(<<>>)],
       [k |-> <<"S", "l", "o", "t", " ", "2">>, v |-> StrV(<<"W", "a", "t", "e", "r", " ", "G", "u", "n">>)],
       [k |-> <<"S", "l", "o", "t", " ", "3">>, v |-> NoneV],
       [k |-> <<"S", "l", "o", "t", " ", "4">>, v |-> StrV(<<"I", "c", "e", "-", "B", "e", "a", "m">>)],
       [k |-> <<"A", "b", "i", "l", "i", "t", "y">>, v |-> StrV(<<"O", "w", "n", " ", "T", "e", "m", "p", "o">>)],
       [k |-> <<"i", "t", "e", "m", " ">>, v |-> StrV(<<"C", "h", "o", "i", "c", "e", " ", "B", "a", "n", "d">>)],
       [k |-> <<"I", "V", "s">>, v |-> IntV(31)],
       [k |-> <<"E", "V", "s">>, v |-> StrV(<<"8", "5">>)],
       [k |-> <<"N", "a", "t", "u", "r", "e">>, v |-> StrV(<<"J", "o", "l", "l", "y">>)],
       [k |-> <<"G", "E", "N", "D", "E", "R">>, v |-> StrV(<<"f", "e", "m", "a", "l", "e">>)] >>

EntityChars == {"a", "B", "7", "_", " ", "-", "É"}
\* what one cell of the record is changed to
CellChanges ==
    {StrV(s) : s \in Texts(EntityChars, MaxNameLen)}
        \cup {NoneV, NaNV, IntV(0), IntV(7), BoolV(FALSE), FloatV(25, 10)}
\* the record without its column i
WithoutColumn(rec, i) == SubSeq(rec, 1, i - 1) \o SubSeq(rec, i + 1, Len(rec))
EntityRecords ==
    {BaseRecord}
        \cup {WithoutColumn(BaseRecord, i) : i \in 1..Len(BaseRecord)}
        \cup {[BaseRecord EXCEPT ![i].v = c] : i \in 1..Len(BaseRecord), c \in CellChanges}

InitEntity ==
    /\ pc = "build"
    /\ series \in EntityRecords
    /\ field = Unset
    /\ got = Unset
    /\ pokemon = Unset
    /\ InferIdle /\ RenderIdle /\ MainIdle

BuildPokemon ==
    /\ pc = "build"
    /\ pokemon' = pokemon_from_row(series, PokemonTemplate)
    /\ pc' = "built"
    /\ UNCHANGED <<series, field, got, inferVars, renderVars, mainVars>>

NextEntity == BuildPokemon

SpecEntity == InitEntity /\ [][NextEntity]_vars

\* the attribute of a built entity under the template's key
Attr(entity, key) == DictGet(entity.kv, key, Unset)
\* the cell of a column, whatever the case and padding of its label; None when absent
CellOf(rec, label) ==
    IF \E i \in 1..Len(rec) : Fold(rec[i].k) = Fold(label)
    THEN rec[CHOOSE i \in 1..Len(rec) : Fold(rec[i].k) = Fold(label)].v
    ELSE NoneV
\* a cell that is missing, null or empty
IsBlank(c) == c \in {NoneV, NaNV, StrV(<<>>)}
OptionalFields ==
    {<<"P", "o", "k", "e", "m", "o", "n">>, <<"A", "b", "i", "l", "i", "t", "y">>, <<"I", "t", "e", "m">>, <<"N", "a", "t", "u", "r", "e">>, <<"G", "e", "n", "d", "e", "r">>, <<"A", "s", "p", "e", "c", "t">>, <<"I", "V", "s">>, <<"E", "V", "s">>,
     <<"S", "l", "o", "t", " ", "0">>, <<"S", "l", "o", "t", " ", "1">>, <<"S", "l", "o", "t", " ", "2">>, <<"S", "l", "o", "t", " ", "3">>, <<"S", "l", "o", "t", " ", "4">>}
\* every cell of the record is as in the complete record, or blank
OnlyBlanked(rec) ==
    \A f \in OptionalFields : CellOf(rec, f) = CellOf(BaseRecord, f) \/ IsBlank(CellOf(rec, f))

\* C5: building an entity from a record whose optional fields are missing,
\* null or empty never raises; the entity has nature "docile" and gender "MALE"
\* for an absent or empty cell, and the empty token for an absent identifier.
C5_MissingFieldsDefault ==
    (pc = "built" /\ OnlyBlanked(series)) =>
        /\ pokemon.t # "raise"
        /\ IsBlank(CellOf(series, <<"N", "a", "t", "u", "r", "e">>)) => Attr(pokemon, <<"n", "a", "t", "u", "r", "e">>) = StrV(<<"d", "o", "c", "i", "l", "e">>)
        /\ IsBlank(CellOf(series, <<"G", "e", "n", "d", "e", "r">>)) => Attr(pokemon, <<"g", "e", "n", "d", "e", "r">>) = StrV(<<"M", "A", "L", "E">>)
        /\ IsBlank(CellOf(series, <<"P", "o", "k", "e", "m", "o", "n">>)) => Attr(pokemon, <<"s", "p", "e", "c", "i", "e", "s">>) = StrV(<<>>)
        /\ IsBlank(CellOf(series, <<"A", "b", "i", "l", "i", "t", "y">>)) => Attr(pokemon, <<"a", "b", "i", "l", "i", "t", "y">>) = StrV(<<>>)
        /\ IsBlank(CellOf(series, <<"I", "t", "e", "m">>)) => Attr(pokemon, <<"h", "e", "l", "d", "I", "t", "e", "m">>) = StrV(<<>>)

TokenChars ==
    { "a", "b", "c", "d", "e", "f", "g", "h", "i", "j", "k", "l", "m", "n", "o", "p", "q",
      "r", "s", "t", "u", "v", "w", "x", "y", "z", "0", "1", "2", "3", "4", "5", "6", "7",
      "8", "9", "_" }
IsToken(v) == v.t = "str" /\ \A i \in 1..Len(v.s) : v.s[i] \in TokenChars

\* C6: every sanitized identifier of a built entity (creature identifier, each
\* move, ability, held item) consists only of characters in [a-z0-9_].
C6_IdentifiersSanitized ==
    (pc = "built" /\ pokemon.t # "raise") =>
        /\ IsToken(Attr(pokemon, <<"s", "p", "e", "c", "i", "e", "s">>))
        /\ IsToken(Attr(pokemon, <<"a", "b", "i", "l", "i", "t", "y">>))
        /\ IsToken(Attr(pokemon, <<"h", "e", "l", "d", "I", "t", "e", "m">>))
        /\ Attr(pokemon, <<"m", "o", "v", "e", "s", "e", "t">>).t = "list"
        /\ \A i \in 1..Len(Attr(pokemon, <<"m", "o", "v", "e", "s", "e", "t">>).xs) : IsToken(Attr(pokemon, <<"m", "o", "v", "e", "s", "e", "t">>).xs[i])

\* an entity was built from a creature cell with upper case and a non-ASCII letter
C6_Witness ==
    /\ pc = "built"
    /\ CellOf(series, <<"P", "o", "k", "e", "m", "o", "n">>) = StrV(<<"B", "É">>)
    /\ pokemon.t = "dict"
    /\ Attr(pokemon, <<"s", "p", "e", "c", "i", "e", "s">>) = StrV(<<"b">>)
    /\ Attr(pokemon, <<"m", "o", "v", "e", "s", "e", "t">>) = ListV(<<StrV(<<"t", "a", "c", "k", "l", "e">>), StrV(<<"w", "a", "t", "e", "r", "g", "u", "n">>), StrV(<<"i", "c", "e", "b", "e", "a", "m">>)>>)
    /\ Attr(pokemon, <<"h", "e", "l", "d", "I", "t", "e", "m">>) = StrV(<<"c", "h", "o", "i", "c", "e", "_", "b", "a", "n", "d">>)

\* the cells of the slots 0..4 of a record, in slot order (None for an absent one)
SlotCells(rec) == [i \in 1..5 |-> CellOf(rec, <<"S", "l", "o", "t", " ">> \o <<DigitChars[i]>>)]
\* an empty, whitespace-only, null or absent cell
IsEmptyCell(c) == c \in {NoneV, NaNV} \/ (c.t = "str" /\ \A i \in 1..Len(c.s) : IsSpace(c.s[i]))
\* the text lower-cased, with everything but [a-z0-9_] removed
Sanitized(s) == SelectSeq(Lower(s), LAMBDA ch : ch \in TokenChars)
\* the sanitized texts of the cells, in the order of the cells
SanitizedCells(cells) == [i \in 1..Len(cells) |-> StrV(Sanitized(PyStr(cells[i])))]

-----------------------------------------------------------------------------
(* main: the grouping loop over one sheet.  A sheet (DataFrame) is the     *)
(* sequence of its records; its key cells are integers or NaN, its name    *)
(* cells strings or NaN, as pandas reads them.                             *)

BADGE_LEVEL == <<"B", "a", "d", "g", "e", " ", "L", "e", "v", "e", "l">>
LEADER_NAME == <<"L", "e", "a", "d", "e", "r", " ", "N", "a", "m", "e">>

\* df[ffill_cols].ffill(): a NaN cell of the two columns takes the last value above it
RECURSIVE FFillFrom(_, _, _)
FFillFrom(df, badge, leader) ==
    IF df = <<>> THEN <<>>
    ELSE LET b == IF IsNaN(DictGet(Head(df), BADGE_LEVEL, NaNV)) THEN badge
                  ELSE DictGet(Head(df), BADGE_LEVEL, NaNV)
             l == IF IsNaN(DictGet(Head(df), LEADER_NAME, NaNV)) THEN leader
                  ELSE DictGet(Head(df), LEADER_NAME, NaNV)
         IN  <<DictSet(DictSet(Head(df), BADGE_LEVEL, b), LEADER_NAME, l)>>
                 \o FFillFrom(Tail(df), b, l)
FFill(df) == FFillFrom(df, NaNV, NaNV)

\* the elements of a set of integers in ascending order
RECURSIVE Ascending(_)
Ascending(S) ==
    IF S = {} THEN <<>>
    ELSE LET lo == CHOOSE x \in S : \A y \in S : x <= y
         IN  <<lo>> \o Ascending(S \ {lo})
\* the elements of a sequence of integers in the order they first appear
RECURSIVE FirstAppearance(_, _)
FirstAppearance(ks, seen) ==
    IF ks = <<>> THEN <<>>
    ELSE IF Head(ks) \in seen THEN FirstAppearance(Tail(ks), seen)
    ELSE <<Head(ks)>> \o FirstAppearance(Tail(ks), seen \cup {Head(ks)})

\* the integer keys of the records of df, in record order (groupby drops the NaN keys)
KeyColumn(df) ==
    LET keyed == SelectSeq(df, LAMBDA r : DictGet(r, BADGE_LEVEL, NaNV).t = "int")
    IN  [i \in 1..Len(keyed) |-> DictGet(keyed[i], BADGE_LEVEL, NaNV).n]
\* the group keys of df.groupby("Badge Level") with sort=False
GroupKeys_unsorted(df) == FirstAppearance(KeyColumn(df), {})
\* the group keys of df.groupby("Badge Level"), in iteration order: ascending
GroupKeys(df) == Ascending(Range(KeyColumn(df)))
\* the group of a key: its records in the order of the sheet
GroupOf(df, key) == SelectSeq(df, LAMBDA r : DictGet(r, BADGE_LEVEL, NaNV) = IntV(key))

\* p in s, for texts
IsSubstring(p, s) == \E i \in 0..(Len(s) - Len(p)) : SubSeq(s, i + 1, i + Len(p)) = p
\* s.replace(" ", "_")
SpacesToUnderscores(s) == [i \in 1..Len(s) |-> IF s[i] = " " THEN "_" ELSE s[i]]
\* [A-Za-z0-9._-]
IsSafeChar(c) == IsNameChar(c) \/ c \in {".", "-"}
RECURSIVE DropUnsafeRun(_)
DropUnsafeRun(s) == IF s # <<>> /\ ~IsSafeChar(Head(s)) THEN DropUnsafeRun(Tail(s)) ELSE s
\* re.sub(r"[^A-Za-z0-9._-]+", "_", s)
RECURSIVE SubUnsafeRuns(_)
SubUnsafeRuns(s) ==
    IF s = <<>> THEN <<>>
    ELSE IF ~IsSafeChar(Head(s)) THEN <<"_">> \o SubUnsafeRuns(DropUnsafeRun(s))
    ELSE <<Head(s)>> \o SubUnsafeRuns(Tail(s))
\* s.strip("_")
RECURSIVE StripUnderscores(_)
StripUnderscores(s) ==
    IF s # <<>> /\ Head(s) = "_" THEN StripUnderscores(Tail(s))
    ELSE IF s # <<>> /\ s[Len(s)] = "_" THEN StripUnderscores(SubSeq(s, 1, Len(s) - 1))
    ELSE s
\* the file-name token of a roster name
Safe(leader_name) == StripUnderscores(SubUnsafeRuns(leader_name))

\* (first.get('Leader Name') or first.get('Leader', '')).lower().strip():
\* AttributeError when the cell is no str
LeaderNameOf(first) ==
    LET c == Or(DictGet(first, LEADER_NAME, NoneV), DictGet(first, <<"L", "e", "a", "d", "e", "r">>, StrV(<<>>)))
    IN  IF c.t # "str" THEN Raised("AttributeError") ELSE StrV(Strip(Lower(c.s)))

\* f"chickencoopleader_{known_leader_name}_{level}"
TrainerId(known_leader_name, level) ==
    <<"c", "h", "i", "c", "k", "e", "n", "c", "o", "o", "p", "l", "e", "a", "d", "e", "r", "_">> \o known_leader_name \o <<"_">> \o IntText(level)

\* top tier: its prerequisites come from the elite names
EliteLevel == 9
\* only the elite names at an index below this are used
EliteCap == 8

\* required_defeats of a group
RequiredDefeats(badge_level, leader_name, known, elite) ==
    IF badge_level = EliteLevel THEN
        LET idx == SelectSeq([i \in 1..Len(elite) |-> i],
                             LAMBDA i : elite[i] # leader_name /\ i - 1 < EliteCap)
        IN  [j \in 1..Len(idx) |-> StrV(TrainerId(elite[idx[j]], badge_level - 1))]
    ELSE IF badge_level >= 1 THEN
        LET ns == SelectSeq(known, LAMBDA n : n # leader_name)
        IN  [j \in 1..Len(ns) |-> StrV(TrainerId(ns[j], badge_level - 1))]
    ELSE <<>>

\* the entities of a group: one per record while pokemon_template_obj is loaded
PokemonList(group, pokemon_template_obj) ==
    IF pokemon_template_obj = NoneV THEN <<>>
    ELSE [i \in 1..Len(group) |-> pokemon_from_row(group[i], pokemon_template_obj)]

\* group_map after the assignments of lines 250-265
GroupMap(first, leader_name, badge_level) ==
    LET own == IF leader_name # <<>> THEN leader_name ELSE <<"l", "e", "a", "d", "e", "r", "_">> \o IntText(badge_level)
        display == IF leader_name # <<>>
                   THEN <<UpperChar(Head(leader_name))>> \o Tail(leader_name)
                   ELSE <<"l", "e", "a", "d", "e", "r", "_">> \o IntText(badge_level)
        m1 == DictSet(DictSet(DictSet(first, <<"L", "E", "A", "D", "E", "R", "_", "N", "A", "M", "E">>, StrV(own)),
                              <<"L", "E", "A", "D", "E", "R", "_", "D", "I", "S", "P", "L", "A", "Y", "_", "N", "A", "M", "E">>, StrV(display)),
                      <<"B", "A", "D", "G", "E", "_", "L", "E", "V", "E", "L">>, IntV(badge_level))
    IN  IF ~Truthy(DictGet(m1, <<"B", "A", "T", "T", "L", "E", "_", "F", "O", "R", "M", "A", "T">>, NoneV)) /\ <<"F", "o", "r", "m", "a", "t">> \in DictKeys(first)
        THEN DictSet(m1, <<"B", "A", "T", "T", "L", "E", "_", "F", "O", "R", "M", "A", "T">>, DictGet(first, <<"F", "o", "r", "m", "a", "t">>, NoneV))
        ELSE m1

File(kind, fname, obj) == [kind |-> kind, file |-> fname, obj |-> obj]

\* the files of an iteration are written one after the other: [exc, files], the
\* exception that ends the run (None when none) and the files written before it
WriteFiles(files) ==
    IF \E i \in 1..Len(files) : files[i].obj.t = "raise"
    THEN [exc |-> FirstRaised([i \in 1..Len(files) |-> files[i].obj]),
          files |-> SubSeq(files, 1,
                           (CHOOSE i \in 1..Len(files) :
                                /\ files[i].obj.t = "raise"
                                /\ \A j \in 1..(i - 1) : files[j].obj.t # "raise") - 1)]
    ELSE [exc |-> NoneV, files |-> files]

\* f"chickencoopleader_{safe}_{badge_level}.json"
FileName(leader_name, badge_level) ==
    TrainerId(Safe(leader_name), badge_level) \o <<".", "j", "s", "o", "n">>

\* the mob trainer group of a group: rendered with REQUIRED_DEFEATS in the map
RenderMob(mobs_template_obj, group_map, required) ==
    render_node(mobs_template_obj,
                DictSet(group_map, <<"R", "E", "Q", "U", "I", "R", "E", "D", "_", "D", "E", "F", "E", "A", "T", "S">>,
                        IF required # <<>> THEN ListV(<<ListV(required)>>) ELSE ListV(<<>>)),
                NoneV)

\* lines 267-301: the entities are built, then the trainer, the advancement and
\* the mob trainer group are rendered and written
RenderGroup(group_map, leader_name, badge_level, pokemon_list, tpl, known, elite) ==
    IF AnyRaised(pokemon_list) THEN [exc |-> FirstRaised(pokemon_list), files |-> <<>>]
    ELSE WriteFiles(
            <<File("trainer", FileName(leader_name, badge_level),
                   render_node(tpl.leader, group_map, ListV(pokemon_list)))>>
            \o (IF tpl.advancement = NoneV THEN <<>>
                ELSE <<File("advancement",
                            <<"d", "e", "f", "e", "a", "t", "_">> \o FileName(leader_name, badge_level),
                            render_node(tpl.advancement, group_map, NoneV))>>)
            \o (IF tpl.mobs = NoneV THEN <<>>
                ELSE <<File("mob", FileName(leader_name, badge_level),
                            RenderMob(tpl.mobs, group_map,
                                      RequiredDefeats(badge_level, leader_name, known, elite)))>>))

\* lines 250-258: a group whose first record has no usable name ends the run
\* (AttributeError), one whose name holds "leader name" is skipped
ProcessNamed(group, badge_level, name, tpl, known, elite) ==
    IF name.t = "raise" THEN [exc |-> name, files |-> <<>>]
    ELSE IF IsSubstring(<<"l", "e", "a", "d", "e", "r", " ", "n", "a", "m", "e">>, name.s)
    THEN [exc |-> NoneV, files |-> <<>>]
    ELSE RenderGroup(GroupMap(group[1], name.s, badge_level), name.s, badge_level,
                     PokemonList(group, tpl.pokemon), tpl, known, elite)

\* one iteration of the loop of main over the groups of df (already forward filled)
ProcessGroup(df, key, tpl, known, elite) ==
    ProcessNamed(GroupOf(df, key), key, LeaderNameOf(GroupOf(df, key)[1]), tpl, known, elite)

\* df["Leader Name"].dropna().unique().tolist(): the names of the sheet, NaN dropped
NameColumn(df) ==
    LET named == SelectSeq(df, LAMBDA r : ~IsNaN(DictGet(r, LEADER_NAME, NaNV)))
    IN  [i \in 1..Len(named) |-> DictGet(named[i], LEADER_NAME, NaNV)]

\* badge levels from this one on are collected into elite_4_names
EliteFrom == 8

\* pd.read_excel(excel_file, sheet_name=sheet) followed by the forward fill
ReadSheet == FFill(workbook[sheet_i])

\* __main__ with one sheet named: leader_names gets the first name of the sheet,
\* lower-cased and stripped; IndexError when the sheet has no name
ReadLeaderName ==
    /\ pc = "names"
    /\ IF NameColumn(workbook[1]) = <<>>
       THEN pc' = "crashed" /\ UNCHANGED leader_names
       ELSE /\ leader_names' = <<Strip(Lower(NameColumn(workbook[1])[1].s))>>
            /\ pc' = "main"
    /\ UNCHANGED <<workbook, templates, elite_4_names, sheet_i, group_i, written>>
    /\ UNCHANGED <<inferVars, renderVars, entityVars>>

\* the files of the iteration are on disk; the loop goes on unless it raised
AfterGroup(r) ==
    /\ written' = written \o r.files
    /\ IF r.exc = NoneV
       THEN pc' = "main" /\ group_i' = group_i + 1
       ELSE pc' = "crashed" /\ UNCHANGED group_i

\* main: one iteration of `for badge_level, group in grouped` (the keys of the
\* sheets are numbers, so the header-row test of line 245 never holds)
MainGroup ==
    /\ pc = "main"
    /\ group_i <= Len(GroupKeys(ReadSheet))
    /\ AfterGroup(ProcessGroup(ReadSheet, GroupKeys(ReadSheet)[group_i], templates,
                               leader_names, elite_4_names))
    /\ UNCHANGED <<workbook, templates, leader_names, elite_4_names, sheet_i>>
    /\ UNCHANGED <<inferVars, renderVars, entityVars>>

\* main returns after the last group; __main__ calls it for the next sheet, if any
MainReturn ==
    /\ pc = "main"
    /\ group_i > Len(GroupKeys(ReadSheet))
    /\ IF sheet_i < Len(workbook)
       THEN sheet_i' = sheet_i + 1 /\ group_i' = 1 /\ pc' = "main"
       ELSE pc' = "done" /\ UNCHANGED <<sheet_i, group_i>>
    /\ UNCHANGED <<workbook, templates, leader_names, elite_4_names, written>>
    /\ UNCHANGED <<inferVars, renderVars, entityVars>>

\* the name the collection appends: the first name of the whole sheet,
\* lower-cased, stripped, spaces replaced by underscores
CollectedName(df) == SpacesToUnderscores(Strip(Lower(NameColumn(df)[1].s)))

\* __main__ with every sheet: one iteration of the inner loop that collects the names
CollectGroup ==
    /\ pc = "collect"
    /\ group_i <= Len(GroupKeys(workbook[sheet_i]))
    /\ LET df == workbook[sheet_i]
           badge_level == GroupKeys(df)[group_i]
           name == LeaderNameOf(GroupOf(df, badge_level)[1])
       IN  IF name.t = "raise"
           THEN pc' = "crashed" /\ UNCHANGED <<group_i, leader_names, elite_4_names>>
           ELSE /\ pc' = "collect"
                /\ group_i' = group_i + 1
                /\ IF IsSubstring(LEADER_NAME, name.s)
                   THEN UNCHANGED <<leader_names, elite_4_names>>
                   ELSE IF badge_level >= EliteFrom /\ name.s \notin Range(elite_4_names)
                   THEN /\ elite_4_names' = Append(elite_4_names, CollectedName(df))
                        /\ UNCHANGED leader_names
                   ELSE IF badge_level < EliteFrom /\ name.s \notin Range(leader_names)
                   THEN /\ leader_names' = Append(leader_names, CollectedName(df))
                        /\ UNCHANGED elite_4_names
                   ELSE UNCHANGED <<leader_names, elite_4_names>>
    /\ UNCHANGED <<workbook, templates, sheet_i, written>>
    /\ UNCHANGED <<inferVars, renderVars, entityVars>>

\* the collection moves to the next sheet; after the last one the sheets are processed
CollectNextSheet ==
    /\ pc = "collect"
    /\ group_i > Len(GroupKeys(workbook[sheet_i]))
    /\ IF sheet_i < Len(workbook)
       THEN sheet_i' = sheet_i + 1 /\ pc' = "collect"
       ELSE sheet_i' = 1 /\ pc' = "main"
    /\ group_i' = 1
    /\ UNCHANGED <<workbook, templates, leader_names, elite_4_names, written>>
    /\ UNCHANGED <<inferVars, renderVars, entityVars>>

-----------------------------------------------------------------------------
(* The sheets and templates the runs are checked on.                       *)

GymTemplate ==
    DictV(<< [k |-> <<"i", "d">>, v |-> StrV(<<"{", "{", "L", "E", "A", "D", "E", "R", "_", "N", "A", "M", "E", "}", "}">>)],
             [k |-> <<"n", "a", "m", "e">>, v |-> StrV(<<"{", "{", "L", "E", "A", "D", "E", "R", "_", "D", "I", "S", "P", "L", "A", "Y", "_", "N", "A", "M", "E", "}", "}">>)],
             [k |-> <<"b", "a", "d", "g", "e">>, v |-> StrV(<<"{", "{", "B", "A", "D", "G", "E", "_", "L", "E", "V", "E", "L", "}", "}">>)],
             [k |-> <<"f", "o", "r", "m", "a", "t">>, v |-> StrV(<<"{", "{", "B", "A", "T", "T", "L", "E", "_", "F", "O", "R", "M", "A", "T", "}", "}">>)],
             [k |-> <<"t", "e", "a", "m">>, v |-> StrV(<<"{", "{", "P", "O", "K", "E", "M", "O", "N", "_", "T", "E", "A", "M", "_", "L", "I", "S", "T", "}", "}">>)] >>)
TeamPokemonTemplate ==
    DictV(<< [k |-> <<"s", "p", "e", "c", "i", "e", "s">>, v |-> StrV(<<"{", "{", "P", "O", "K", "E", "M", "O", "N", "_", "N", "A", "M", "E", "}", "}">>)] >>)
AdvancementTemplate ==
    DictV(<< [k |-> <<"t", "r", "a", "i", "n", "e", "r">>, v |-> StrV(<<"c", "h", "i", "c", "k", "e", "n", "c", "o", "o", "p", "l", "e", "a", "d", "e", "r", "_", "{", "{", "L", "E", "A", "D", "E", "R", "_", "N", "A", "M", "E", "}", "}", "_", "{", "{", "B", "A", "D", "G", "E", "_", "L", "E", "V", "E", "L", "}", "}">>)] >>)
MobsTemplate ==
    DictV(<< [k |-> <<"i", "d">>, v |-> StrV(<<"{", "{", "L", "E", "A", "D", "E", "R", "_", "N", "A", "M", "E", "}", "}">>)],
             [k |-> <<"b", "a", "d", "g", "e">>, v |-> StrV(<<"{", "{", "B", "A", "D", "G", "E", "_", "L", "E", "V", "E", "L", "}", "}">>)],
             [k |-> <<"r", "e", "q", "u", "i", "r", "e", "d", "D", "e", "f", "e", "a", "t", "s">>, v |-> StrV(<<"{", "{", "R", "E", "Q", "U", "I", "R", "E", "D", "_", "D", "E", "F", "E", "A", "T", "S", "}", "}">>)] >>)

\* which of the optional template files exist
TemplateSets ==
    [leader : {GymTemplate}, pokemon : {NoneV, TeamPokemonTemplate},
     advancement : {NoneV, AdvancementTemplate}, mobs : {NoneV, MobsTemplate}]

\* the record at position i of a sheet: its species tells the position
SheetRecord(badge, leader, i) ==
    << [k |-> BADGE_LEVEL, v |-> badge],
       [k |-> LEADER_NAME, v |-> leader],
       [k |-> <<"P", "o", "k", "e", "m", "o", "n">>, v |-> StrV(<<"M", LowerChars[i]>>)],
       [k |-> <<"N", "a", "t", "u", "r", "e">>, v |-> StrV(<<"J", "o", "l", "l", "y">>)],
       [k |-> <<"G", "e", "n", "d", "e", "r">>, v |-> StrV(<<"m", "a", "l", "e">>)],
       [k |-> <<"F", "o", "r", "m", "a", "t">>, v |-> StrV(<<"s", "i", "n", "g", "l", "e", "s">>)] >>
SheetsOf(badges, leaders) ==
    UNION {{[i \in 1..n |-> SheetRecord(c[i][1], c[i][2], i)] :
                c \in [1..n -> badges \X leaders]} : n \in 0..MaxRows}

LeaderCells == {NaNV, StrV(<<"A", "l">>), StrV(<<" ", "b", " ", "c">>)}
OneSheets == SheetsOf({NaNV, IntV(0), IntV(2), IntV(9)}, LeaderCells)
AllSheets == SheetsOf({IntV(2), IntV(3), IntV(9)}, LeaderCells)

InitSheet ==
    /\ pc = "names"
    /\ workbook \in {<<df>> : df \in OneSheets}
    /\ templates \in TemplateSets
    /\ leader_names = <<>> /\ elite_4_names = <<>>
    /\ sheet_i = 1 /\ group_i = 1 /\ written = <<>>
    /\ InferIdle /\ RenderIdle /\ EntityIdle
NextSheet == ReadLeaderName \/ MainGroup \/ MainReturn
SpecSheet == InitSheet /\ [][NextSheet]_vars

InitAll ==
    /\ pc = "collect"
    /\ workbook \in [1..NumSheets -> AllSheets]
    /\ templates \in {s \in TemplateSets : s.pokemon # NoneV /\ s.advancement # NoneV}
    /\ leader_names = <<>> /\ elite_4_names = <<>>
    /\ sheet_i = 1 /\ group_i = 1 /\ written = <<>>
    /\ InferIdle /\ RenderIdle /\ EntityIdle
NextAll == CollectGroup \/ CollectNextSheet \/ MainGroup \/ MainReturn
SpecAll == InitAll /\ [][NextAll]_vars


-----------------------------------------------------------------------------
(* Claims about the grouping loop.                                         *)

\* the cell of a column at record i as the loop sees it: the last cell at or
\* above i that is not NaN (NaN when there is none)
Effective(df, i, label) ==
    IF \E j \in 1..i : ~IsNaN(DictGet(df[j], label, NaNV))
    THEN DictGet(df[CHOOSE j \in 1..i :
                        /\ ~IsNaN(DictGet(df[j], label, NaNV))
                        /\ \A h \in (j + 1)..i : IsNaN(DictGet(df[h], label, NaNV))],
                 label, NaNV)
    ELSE NaNV
\* the positions of the member records of the group of a key, ascending
Members(df, key) ==
    Ascending({i \in 1..Len(df) : Effective(df, i, BADGE_LEVEL) = IntV(key)})
\* the files of a kind among the written ones, in the order of writing
FilesOf(kind) == SelectSeq(written, LAMBDA f : f.kind = kind)
\* the entity the loop builds for the record at position i
EntityAt(i) == DictV(<< [k |-> <<"s", "p", "e", "c", "i", "e", "s">>, v |-> StrV(<<"m", LowerChars[i]>>)] >>)
\* the name and the metadata of a written group come from its first member
FromFirstRecord(df, f) ==
    LET first == Members(df, Attr(f.obj, <<"b", "a", "d", "g", "e">>).n)[1]
        leader == Strip(Lower(Effective(df, first, LEADER_NAME).s))
    IN  /\ Attr(f.obj, <<"i", "d">>) = StrV(leader)
        /\ Attr(f.obj, <<"n", "a", "m", "e">>) = StrV(<<UpperChar(Head(leader))>> \o Tail(leader))
        /\ Attr(f.obj, <<"f", "o", "r", "m", "a", "t">>) = DictGet(df[first], <<"F", "o", "r", "m", "a", "t">>, NoneV)
\* the written groups are in ascending key order
AscendingGroups ==
    \A i, j \in 1..Len(FilesOf("trainer")) :
        i < j => Attr(FilesOf("trainer")[i].obj, <<"b", "a", "d", "g", "e">>).n
                     < Attr(FilesOf("trainer")[j].obj, <<"b", "a", "d", "g", "e">>).n
\* the entity list of a written group has one entity per member, in record order
OnePerMember(df, f) ==
    LET ms == Members(df, Attr(f.obj, <<"b", "a", "d", "g", "e">>).n)
    IN  Attr(f.obj, <<"t", "e", "a", "m">>) = ListV([j \in 1..Len(ms) |-> EntityAt(ms[j])])

\* C9 as stated: the groups are processed in ascending key order, and the
\* entity list of every processed group has exactly one entity per member
\* record, in record order, with name and metadata from the first record.
C9_OnePerMemberInOrder ==
    pc \in {"main", "done", "crashed"} =>
        /\ AscendingGroups
        /\ \A i \in 1..Len(FilesOf("trainer")) :
            /\ FromFirstRecord(workbook[1], FilesOf("trainer")[i])
            /\ OnePerMember(workbook[1], FilesOf("trainer")[i])

\* C9 amended: as above while the entity template is loaded; without it the
\* entity list of every processed group is empty.
C9_OnePerMemberWithTemplate ==
    pc \in {"main", "done", "crashed"} =>
        /\ AscendingGroups
        /\ \A i \in 1..Len(FilesOf("trainer")) :
            /\ FromFirstRecord(workbook[1], FilesOf("trainer")[i])
            /\ IF templates.pokemon # NoneV
               THEN OnePerMember(workbook[1], FilesOf("trainer")[i])
               ELSE Attr(FilesOf("trainer")[i].obj, <<"t", "e", "a", "m">>) = ListV(<<>>)

\* a sheet whose second record has the smaller key and another name was
\* processed to its end with the entity template loaded: two groups written
C9_Witness ==
    /\ pc = "done"
    /\ templates.pokemon # NoneV
    /\ Len(workbook[1]) = 2
    /\ DictGet(workbook[1][1], BADGE_LEVEL, NaNV) = IntV(9)
    /\ DictGet(workbook[1][2], BADGE_LEVEL, NaNV) = IntV(2)
    /\ DictGet(workbook[1][1], LEADER_NAME, NaNV) # DictGet(workbook[1][2], LEADER_NAME, NaNV)
    /\ Len(FilesOf("trainer")) = 2
    /\ Attr(FilesOf("trainer")[1].obj, <<"t", "e", "a", "m">>) = ListV(<<EntityAt(2)>>)

\* the references a group of this name and key would make to itself
OwnReferences(leader, key) ==
    {StrV(TrainerId(leader, key - 1)), StrV(TrainerId(SpacesToUnderscores(leader), key - 1))}
\* the text ends with the suffix
EndsWith(s, suffix) ==
    Len(s) >= Len(suffix) /\ SubSeq(s, Len(s) - Len(suffix) + 1, Len(s)) = suffix
\* the prerequisites written for a group: the references of requiredDefeats
Prerequisites(f) ==
    IF Attr(f.obj, <<"r", "e", "q", "u", "i", "r", "e", "d", "D", "e", "f", "e", "a", "t", "s">>) = ListV(<<>>) THEN <<>>
    ELSE Attr(f.obj, <<"r", "e", "q", "u", "i", "r", "e", "d", "D", "e", "f", "e", "a", "t", "s">>).xs[1].xs

\* C10: the prerequisites of a group with key k refer to key k - 1 and do not
\* include the group's own name, names with spaces included; for the top tier
\* they are drawn from the elite names and are at most 8.
C10_PrerequisitesExcludeOwn ==
    pc \in {"main", "done", "crashed"} =>
        \A i \in 1..Len(FilesOf("mob")) :
            LET f == FilesOf("mob")[i]
                key == Attr(f.obj, <<"b", "a", "d", "g", "e">>).n
                refs == Prerequisites(f)
            IN  /\ \A j \in 1..Len(refs) :
                    /\ EndsWith(refs[j].s, <<"_">> \o IntText(key - 1))
                    /\ refs[j] \notin OwnReferences(Attr(f.obj, <<"i", "d">>).s, key)
                /\ key = EliteLevel =>
                    /\ Len(refs) <= EliteCap
                    /\ \A j \in 1..Len(refs) :
                        \E n \in Range(elite_4_names) : refs[j] = StrV(TrainerId(n, key - 1))


\* no element occurs twice in the sequence
NoDuplicates(names) == \A i, j \in 1..Len(names) : names[i] = names[j] => i = j

\* C12: once the names of all sheets are collected, neither the list of known
\* names nor the list of elite names holds a name twice.
C12_NoDuplicateNames ==
    pc \in {"main", "done"} => NoDuplicates(leader_names) /\ NoDuplicates(elite_4_names)

====
